---- MODULE Spec2Model ----
(***************************************************************************)
(* shell-sleeper (src/index.js): setTimeout/setInterval look-alikes backed *)
(* by `sleep` child processes, with a fallback to the native timers.       *)
(*                                                                         *)
(* The model keeps the module state of index.js (shellDelays,              *)
(* nextshellDelayId), the child processes launched by exec, the native     *)
(* timers created by the fallback, and the single JavaScript thread: a     *)
(* completion handler or a timer callback only runs while no synchronous   *)
(* call is executing.  Wall-clock durations are abstracted: a sleep        *)
(* process is "running" until the step at which its duration elapses.      *)
(***************************************************************************)
EXTENDS Naturals, Sequences, FiniteSets

VARIABLES
    available,          \* what isSleepAvailable() answers when asked now
    shellDelays,        \* index.js:9   slot index -> JS value
    nextshellDelayId,   \* index.js:14
    procs,              \* the ChildProcess launched for each allocated slot
    timers,             \* native timers created by setTimeout/setInterval
    scheds,             \* the caller's setShellTimeout/setShellInterval/shellSleep calls
    fired,              \* per caller schedule: number of callback invocations
    cancel,             \* per caller schedule: what its clear calls came to
    js                  \* the JavaScript thread: idle, or inside clearShellDelay

vars == <<available, shellDelays, nextshellDelayId, procs, timers, scheds,
          fired, cancel, js>>

\* ----------------------------------------------------------------- bounds
MaxScheds == 2
MaxTicks == 2

SchedIds == 1..MaxScheds

\* -------------------------------------------------------------- JS values
Num(n) == [tag |-> "num", ref |-> n]
ProcObj(d) == [tag |-> "proc", ref |-> d]
TimerObj(t) == [tag |-> "timer", ref |-> t]
BoolV(b) == [tag |-> "bool", ref |-> IF b THEN 1 ELSE 0]
Undefined == [tag |-> "undef", ref |-> 0]
Thrown == [tag |-> "thrown", ref |-> 0]
None == [tag |-> "none", ref |-> 0]

Put(f, k, v) == [x \in (DOMAIN f) \cup {k} |-> IF x = k THEN v ELSE f[x]]

State ==
    [avail |-> available, reg |-> shellDelays, next |-> nextshellDelayId,
     procs |-> procs, timers |-> timers]

Install(st) ==
    /\ shellDelays' = st.reg
    /\ nextshellDelayId' = st.next
    /\ procs' = st.procs
    /\ timers' = st.timers

\* ------------------------------------------------------------ setShellDelay
UseFallbackNever(avail) == FALSE

\* index.js:38  if (!isSleepAvailable())
UseFallback(avail) == ~avail

SetShellDelayReuse(st, recur, owner) ==
    IF UseFallback(st.avail)
    THEN [st |-> [st EXCEPT !.timers =
                     Append(@, [state |-> "active", recur |-> recur, owner |-> owner])],
          ret |-> TimerObj(Len(st.timers) + 1)]
    ELSE LET delayId == IF st.next = 0 THEN 0 ELSE st.next - 1 IN
         [st |-> [st EXCEPT
                     !.next = delayId + 1,
                     !.reg = Put(@, delayId, ProcObj(delayId)),
                     !.procs = Put(@, delayId,
                         [state |-> "running", recur |-> recur, owner |-> owner])],
          ret |-> Num(delayId)]

SetShellDelayPreIncrement(st, recur, owner) ==
    IF UseFallback(st.avail)
    THEN [st |-> [st EXCEPT !.timers =
                     Append(@, [state |-> "active", recur |-> recur, owner |-> owner])],
          ret |-> TimerObj(Len(st.timers) + 1)]
    ELSE LET delayId == st.next IN
         [st |-> [st EXCEPT
                     !.next = @ + 1,
                     !.reg = Put(@, delayId, ProcObj(delayId)),
                     !.procs = Put(@, delayId,
                         [state |-> "running", recur |-> recur, owner |-> owner])],
          ret |-> Num(delayId + 1)]

\* index.js:35-57.  The value is the state after the call and what it returns.
SetShellDelay(st, recur, owner) ==
    IF UseFallback(st.avail)
    THEN [st |-> [st EXCEPT !.timers =
                     Append(@, [state |-> "active", recur |-> recur, owner |-> owner])],
          ret |-> TimerObj(Len(st.timers) + 1)]
    ELSE LET delayId == st.next IN
         [st |-> [st EXCEPT
                     !.next = @ + 1,
                     !.reg = Put(@, delayId, ProcObj(delayId)),
                     !.procs = Put(@, delayId,
                         [state |-> "running", recur |-> recur, owner |-> owner])],
          ret |-> Num(delayId)]

ReschedulesAlways(error, recur) == recur

\* index.js:47,50  if (!error) { if (recur) { ... } }
Reschedules(error, recur) == ~error /\ recur

CallbackRunsAlways(error) == TRUE

\* index.js:47,53  if (!error) { ...; callback(); }
CallbackRuns(error) == ~error

OverwriteNot(reg, d, v) == reg

\* index.js:51  shellDelays[delayId] = setShellDelay(callback, ms, true):
\* the slot of the process that completed gets the handle of the next one.
Overwrite(reg, d, v) == [reg EXCEPT ![d] = v]

\* ----------------------------------------------------------- clearShellDelay
\* index.js:95,97  shellDelays[key].  A key that is no allocated slot index (a
\* native Timeout object, undefined) names no property: the read is undefined.
Lookup(reg, key) ==
    IF key.tag = "num" /\ key.ref \in DOMAIN reg THEN reg[key.ref] ELSE Undefined

RECURSIVE Follow(_, _)
\* index.js:96-98  while (typeof (currentHandle) === 'number')
Follow(reg, cur) ==
    IF cur.tag = "num" THEN Follow(reg, Lookup(reg, cur)) ELSE cur

\* index.js:95-98  one pass of the do-while body
Walk(reg, handle) == Follow(reg, Lookup(reg, handle))

\* index.js:99  currentHandle.kill is callable only on a ChildProcess; on a
\* Timeout object or on undefined the call raises a TypeError.
HasKill(cur) == cur.tag = "proc"

\* index.js:99  the value of currentHandle.kill(): whether the process was
\* terminated by this request (false once it has exited or was killed before).
KillResult(ps, cur) == ps[cur.ref].state = "running"

\* index.js:99  the effect of currentHandle.kill() on the process
KillEffect(ps, cur) ==
    IF ps[cur.ref].state = "running"
    THEN [ps EXCEPT ![cur.ref].state = "killed"]
    ELSE ps

\* index.js:90-100  clearShellDelay has no return statement
ClearShellDelayReturn(killRet) == Undefined

\* clearTimeout/clearInterval (index.js:110,121): stops the timer the handle
\* names; a handle that is no live timer object is ignored.
NativeClear(ts, handle) ==
    IF handle.tag = "timer" /\ handle.ref \in 1..Len(ts) /\ ts[handle.ref].state = "active"
    THEN [ts EXCEPT ![handle.ref].state = "cleared"]
    ELSE ts

\* ------------------------------------------------------------------ ghosts
\* The schedule's slot has been overwritten by a native timer handle.
FellBackIn(ts, s) ==
    /\ scheds[s].handle.tag = "num"
    /\ \E t \in 1..Len(ts) : ts[t].owner = s

FellBack(s) == FellBackIn(timers, s)

\* No clear call was made on the handle yet.
NotCancelled ==
    [out |-> "none", late |-> FALSE, ret |-> None, killRet |-> None, at |-> 0]

\* What a clear call on the handle of schedule s came to: out is "pending"
\* (still inside clearShellDelay), "killed" (returned after kill() was true),
\* "native" (returned from clearTimeout/clearInterval having stopped a timer;
\* a native clear that finds no live timer does nothing, returns undefined
\* and leaves no entry) or "threw"; late says
\* the call was made after the slot had fallen back to a native timer; ret is
\* what the caller got, killRet what kill() answered, at the number of
\* callback invocations so far when kill() was true.  A "killed" entry stays.
OutcomeIn(c, ts, f, s, out, ret, killRet) ==
    IF c[s].out = "killed"
    THEN c
    ELSE [c EXCEPT ![s] =
            [out |-> out, late |-> FellBackIn(ts, s), ret |-> ret,
             killRet |-> killRet, at |-> IF out = "killed" THEN f[s] ELSE 0]]

Outcome(s, out, ret, killRet) == OutcomeIn(cancel, timers, fired, s, out, ret, killRet)

Idle ==
    [mode |-> "idle", pc |-> "none", handle |-> None, cur |-> None,
     sched |-> 0, first |-> FALSE]

\* index.js:109-111, 120-122 with 90-100: clearShellTimeout / clearShellInterval
\* called on the handle of schedule s, up to the first test of the do-while
\* condition; st is the state it is called in, f the callback counts and c
\* the outcomes so far.  The value is the state, the outcomes and the
\* position of the thread after it.
Clear(st, f, c, s) ==
    LET handle == scheds[s].handle
        cur == Walk(st.reg, handle)
    IN IF st.avail
       THEN IF ~HasKill(cur)
            THEN [st |-> st, js |-> Idle,
                  cancel |-> OutcomeIn(c, st.timers, f, s, "threw", Thrown, None)]
            ELSE IF KillResult(st.procs, cur)
            THEN [st |-> [st EXCEPT !.procs = KillEffect(@, cur)], js |-> Idle,
                  cancel |-> OutcomeIn(c, st.timers, f, s, "killed",
                                       ClearShellDelayReturn(BoolV(TRUE)), BoolV(TRUE))]
            ELSE [st |-> [st EXCEPT !.procs = KillEffect(@, cur)],
                  js |-> [mode |-> "retry", pc |-> "walk", handle |-> handle,
                          cur |-> cur, sched |-> s, first |-> c[s].out = "none"],
                  cancel |-> OutcomeIn(c, st.timers, f, s, "pending", None, BoolV(FALSE))]
       ELSE IF NativeClear(st.timers, handle) = st.timers
            THEN [st |-> st, js |-> Idle, cancel |-> c]
            ELSE [st |-> [st EXCEPT !.timers = NativeClear(@, handle)], js |-> Idle,
                  cancel |-> OutcomeIn(c, st.timers, f, s, "native", Undefined, None)]

\* index.js:53, 38: callback(), the caller's function of schedule s (for
\* shellSleep, index.js:132, the promise's resolve).  The model counts the
\* invocation; with clears, the function calls clearShellInterval on the
\* handle of its own schedule before it returns.  A TypeError raised by that
\* call ends the callback; the host is taken to survive it.
Callback(st, f, c, s, clears) ==
    LET f1 == [f EXCEPT ![s] = @ + 1]
        r == Clear(st, f1, c, s)
    IN IF clears
       THEN [st |-> r.st, fired |-> f1, cancel |-> r.cancel, js |-> r.js]
       ELSE [st |-> st, fired |-> f1, cancel |-> c, js |-> Idle]

RECURSIVE Sum(_)
Sum(q) == IF q = <<>> THEN 0 ELSE q[1] + Sum(Tail(q))

\* The expiries so far that MaxTicks bounds: normal exits of recurring sleeps
\* and firings of native timers (callback invocations no completion handler
\* made).
Ticks ==
    Cardinality({d \in DOMAIN procs :
                   procs[d].recur /\ procs[d].state \in {"exited", "completed"}})
    + Sum(fired)
    - Cardinality({d \in DOMAIN procs : procs[d].state = "completed"})

\* -------------------------------------------------------------------- Init
Init ==
    /\ available \in BOOLEAN
    /\ shellDelays = <<>>
    /\ nextshellDelayId = 0
    /\ procs = <<>>
    /\ timers = <<>>
    /\ scheds = <<>>
    /\ fired = <<>>
    /\ cancel = <<>>
    /\ js = Idle

\* ----------------------------------------------------------------- actions
\* The host gains or loses its sleep command.  isSleepAvailable (index.js:
\* 22-24) is asked by calls only, and a call starts on a free thread.
OracleChange ==
    /\ js.mode = "idle"
    /\ available' = ~available
    /\ UNCHANGED <<shellDelays, nextshellDelayId, procs, timers, scheds, fired,
                   cancel, js>>

\* index.js:67-69, 79-81, 131-133: a caller's setShellInterval /
\* setShellTimeout / shellSleep, each a call of setShellDelay.
\* promise: the call is made by shellSleep, which keeps the handle to itself.
Schedule(recur, promise) ==
    /\ js.mode = "idle"
    /\ Len(scheds) < MaxScheds
    /\ LET s == Len(scheds) + 1
           r == SetShellDelay(State, recur, s)
       IN /\ Install(r.st)
          /\ scheds' = Append(scheds, [handle |-> r.ret, recur |-> recur,
                                       promise |-> promise])
    /\ fired' = Append(fired, 0)
    /\ cancel' = Append(cancel, NotCancelled)
    /\ UNCHANGED <<available, js>>

SetShellInterval == Schedule(TRUE, FALSE)

SetShellTimeout == Schedule(FALSE, FALSE)

\* index.js:131-133  new Promise((resolve) => setShellTimeout(resolve, ms))
ShellSleep == Schedule(FALSE, TRUE)

\* The sleep command of slot d runs out its duration and exits by itself.
ProcExit(d) ==
    /\ d \in DOMAIN procs
    /\ procs[d].state = "running"
    /\ procs[d].recur => Ticks < MaxTicks
    /\ procs' = [procs EXCEPT ![d].state = "exited"]
    /\ UNCHANGED <<available, shellDelays, nextshellDelayId, timers, scheds,
                   fired, cancel, js>>

\* index.js:44-55: the completion handler exec was given for slot d
ExecCallback(d) ==
    /\ js.mode = "idle"
    /\ d \in DOMAIN procs
    /\ procs[d].state \in {"exited", "killed"}
    /\ \E clears \in BOOLEAN :
         LET error == procs[d].state = "killed"
             p == procs[d]
             st0 == [State EXCEPT
                       !.procs[d].state = IF error THEN "aborted" ELSE "completed"]
             r == SetShellDelay(st0, TRUE, p.owner)
             st1 == IF Reschedules(error, p.recur)
                    THEN [r.st EXCEPT !.reg = Overwrite(@, d, r.ret)]
                    ELSE st0
             cb == IF CallbackRuns(error)
                   THEN Callback(st1, fired, cancel, p.owner, clears)
                   ELSE [st |-> st1, fired |-> fired, cancel |-> cancel, js |-> js]
         IN /\ clears => (CallbackRuns(error) /\ scheds[p.owner].recur)
            /\ Install(cb.st)
            /\ fired' = cb.fired
            /\ cancel' = cb.cancel
            /\ js' = cb.js
    /\ UNCHANGED <<available, scheds>>

\* A native timer of the fallback fires (setTimeout once, setInterval again
\* and again).
TimerFire(t) ==
    /\ js.mode = "idle"
    /\ t \in 1..Len(timers)
    /\ timers[t].state = "active"
    /\ Ticks < MaxTicks
    /\ \E clears \in BOOLEAN :
         LET st1 == IF timers[t].recur THEN State
                    ELSE [State EXCEPT !.timers[t].state = "expired"]
             cb == Callback(st1, fired, cancel, timers[t].owner, clears)
         IN /\ clears => timers[t].recur
            /\ Install(cb.st)
            /\ fired' = cb.fired
            /\ cancel' = cb.cancel
            /\ js' = cb.js
    /\ UNCHANGED <<available, scheds>>

\* index.js:109-111, 120-122: a caller's clearShellTimeout /
\* clearShellInterval on the handle of its schedule s.
ClearCall(s) ==
    /\ js.mode = "idle"
    /\ LET r == Clear(State, fired, cancel, s)
       IN /\ Install(r.st)
          /\ cancel' = r.cancel
          /\ js' = r.js
    /\ UNCHANGED <<available, scheds, fired>>

\* index.js:109-111
ClearShellTimeout(s) ==
    /\ s \in 1..Len(scheds)
    /\ ~scheds[s].recur
    /\ ~scheds[s].promise
    /\ ClearCall(s)

\* index.js:120-122
ClearShellInterval(s) ==
    /\ s \in 1..Len(scheds)
    /\ scheds[s].recur
    /\ ClearCall(s)

\* index.js:94-98: a further pass of the do-while body, after kill() was false
ClearWalk ==
    /\ js.mode = "retry"
    /\ js.pc = "walk"
    /\ js' = [js EXCEPT !.pc = "kill", !.cur = Walk(shellDelays, js.handle)]
    /\ UNCHANGED <<available, shellDelays, nextshellDelayId, procs, timers,
                   scheds, fired, cancel>>

\* index.js:99: the do-while condition, tested again
ClearKill ==
    /\ js.mode = "retry"
    /\ js.pc = "kill"
    /\ IF ~HasKill(js.cur)
       THEN /\ cancel' = Outcome(js.sched, "threw", Thrown, None)
            /\ js' = Idle
            /\ UNCHANGED procs
       ELSE IF KillResult(procs, js.cur)
       THEN /\ procs' = KillEffect(procs, js.cur)
            /\ cancel' = Outcome(js.sched, "killed",
                                 ClearShellDelayReturn(BoolV(TRUE)), BoolV(TRUE))
            /\ js' = Idle
       ELSE /\ procs' = KillEffect(procs, js.cur)
            /\ js' = [js EXCEPT !.pc = "walk"]
            /\ UNCHANGED cancel
    /\ UNCHANGED <<available, shellDelays, nextshellDelayId, timers, scheds, fired>>

Slots == 0..(MaxScheds + MaxTicks)

TimerIds == 1..(MaxScheds + MaxTicks)

Next ==
    \/ OracleChange
    \/ SetShellInterval
    \/ SetShellTimeout
    \/ ShellSleep
    \/ \E d \in Slots : ProcExit(d)
    \/ \E d \in Slots : ExecCallback(d)
    \/ \E t \in TimerIds : TimerFire(t)
    \/ \E s \in SchedIds : ClearShellTimeout(s)
    \/ \E s \in SchedIds : ClearShellInterval(s)
    \/ ClearWalk
    \/ ClearKill

Spec == Init /\ [][Next]_vars

\* The operating system ends every sleep, the event loop runs every pending
\* completion handler once the thread is free, and a call that is running
\* keeps running.  Callers and the host's oracle owe nothing.
FairSpec ==
    /\ Spec
    /\ \A d \in Slots : WF_vars(ProcExit(d))
    /\ \A d \in Slots : WF_vars(ExecCallback(d))
    /\ WF_vars(ClearWalk)
    /\ WF_vars(ClearKill)

TypeOK ==
    /\ available \in BOOLEAN
    /\ nextshellDelayId \in Nat
    /\ DOMAIN shellDelays = 0..(nextshellDelayId - 1)
    /\ DOMAIN procs = DOMAIN shellDelays
    /\ Len(fired) = Len(scheds)
    /\ Len(cancel) = Len(scheds)

\* ------------------------------------------------------------------ claims
Scheduled == 1..Len(scheds)

\* The schedule took the blocking-process strategy: its handle is a slot index.
Shell(s) == scheds[s].handle.tag = "num"

\* The process launched by the schedule call itself.
FirstProc(s) == procs[scheds[s].handle.ref]

ProcsOf(s) == {d \in DOMAIN procs : procs[d].owner = s}

\* C1: once clearShellInterval(h) has returned for a recurring schedule of
\* the blocking-process strategy, its callback is never invoked again: the
\* number of invocations stays what it was when the call returned (zero when
\* the cancel came before the first tick).
C1_NoFireAfterClearInterval ==
    \A s \in Scheduled :
        (scheds[s].recur /\ Shell(s) /\ cancel[s].out = "killed")
            => fired[s] = cancel[s].at

\* C1 witness: a recurring schedule cancelled after a tick, the killed
\* process's completion handler has run, and the cancel returned.
C1_Witness ==
    \E s \in Scheduled :
        /\ scheds[s].recur /\ Shell(s) /\ cancel[s].out = "killed"
        /\ cancel[s].at >= 1
        /\ \E d \in ProcsOf(s) : procs[d].state = "aborted"

\* C2: a one-shot schedule of the blocking-process strategy whose
\* clearShellTimeout(h) returned while its sleep process was still running
\* never has its callback invoked.
C2_NoFireAfterClearTimeout ==
    \A s \in Scheduled :
        (~scheds[s].recur /\ Shell(s) /\ cancel[s].out = "killed")
            => fired[s] = 0

\* C2 witness: a cancelled one-shot whose completion handler has run on the
\* killed process.
C2_Witness ==
    \E s \in Scheduled :
        /\ ~scheds[s].recur /\ Shell(s) /\ cancel[s].out = "killed"
        /\ FirstProc(s).state = "aborted"

\* C3 (as claimed): after a recurrence of a setShellInterval schedule fell
\* back to a native timer, a clearShellInterval(h) on the original handle
\* that has come back stops the schedule: no callback fires after it.
C3_FallbackStaysCancellable ==
    [][\A s \in Scheduled :
          (scheds[s].recur /\ Shell(s) /\ cancel[s].late
             /\ cancel[s].out \in {"native", "threw"})
              => fired'[s] = fired[s]]_vars

\* A first clear call on the handle of a schedule (recurring or not) is
\* inside the retry loop of clearShellDelay.
Retrying(recur) ==
    /\ js.mode = "retry"
    /\ js.first
    /\ scheds[js.sched].recur = recur

\* C4 (as claimed): every clearShellInterval(h) on a recurring
\* blocking-strategy handle not cancelled before eventually returns, also
\* when it is issued after the current sleep process exited and before its
\* completion handler installed the next one.
C4_ClearIntervalReturns == [](Retrying(TRUE) => <>(js.mode = "idle"))

\* C5 (as claimed): every clearShellTimeout(h) on a blocking-strategy handle
\* not cancelled before returns, also when the delay has already fired.
C5_ClearTimeoutReturns == [](Retrying(FALSE) => <>(js.mode = "idle"))

NeverCancelled(s) == s \in Scheduled => cancel[s].out = "none"

\* No handle is cleared a second time (the spec leaves that case open).
NoSecondClear == js.mode = "retry" => js.first

\* C6 (as claimed): a one-shot schedule of the blocking-process strategy that
\* is never cancelled has its callback invoked exactly once: not before its
\* sleep process exited normally, not twice, and eventually once it exited
\* (whatever valid calls are made on other handles).
C6_OneShotFiresExactlyOnce ==
    \A s \in SchedIds :
        ([](NeverCancelled(s)) /\ []NoSecondClear) =>
            /\ [](s \in Scheduled /\ ~scheds[s].recur /\ Shell(s)
                    => /\ fired[s] <= 1
                       /\ fired[s] = 1 <=> FirstProc(s).state = "completed")
            /\ [](s \in Scheduled /\ ~scheds[s].recur /\ Shell(s)
                    /\ FirstProc(s).state = "exited"
                    => <>(s \in Scheduled /\ fired[s] = 1))

\* C7 (as claimed): a recurring schedule of the blocking-process strategy
\* that is never cancelled, the oracle staying available, has one callback
\* invocation per normally exited sleep process of the schedule, and every
\* such exit is eventually followed by its invocation (whatever valid calls
\* are made on other handles).
C7_IntervalKeepsFiring ==
    \A s \in SchedIds :
        ([](NeverCancelled(s)) /\ []NoSecondClear /\ []available) =>
            /\ [](s \in Scheduled /\ scheds[s].recur /\ Shell(s)
                    => fired[s] = Cardinality({d \in ProcsOf(s) :
                                                 procs[d].state = "completed"}))
            /\ \A d \in Slots :
                 [](s \in Scheduled /\ scheds[s].recur /\ Shell(s)
                      /\ d \in ProcsOf(s) /\ procs[d].state = "exited"
                      => <>(d \in DOMAIN procs /\ procs[d].state = "completed"))

\* C8 (as claimed): under the blocking-process strategy a clear call returns
\* the result of the termination request it made.
C8_ClearReturnsKillResult ==
    \A s \in Scheduled :
        cancel[s].out = "killed" => cancel[s].ret = cancel[s].killRet

\* C9 (as claimed): no clear call on a handle returned by setShellTimeout or
\* setShellInterval raises an error: its walk never ends on a missing slot
\* or on a value that is no process wrapper.
C9_NoCallThrows ==
    \A s \in Scheduled : cancel[s].out # "threw"

\* C10: with the oracle reporting false, a schedule call returns exactly the
\* handle of the native timer it creates, a clear call on such a handle
\* stops exactly the timer the handle names and returns what the native
\* cancel returns, and neither touches the registry, the slot counter or any
\* process.
C10_FallbackPassesThrough ==
    [][~available =>
         /\ (Len(scheds') # Len(scheds) /\ (SetShellTimeout \/ SetShellInterval)) =>
               /\ Len(timers') = Len(timers) + 1
               /\ scheds'[Len(scheds')].handle = TimerObj(Len(timers'))
               /\ timers'[Len(timers')].state = "active"
               /\ timers'[Len(timers')].recur = scheds'[Len(scheds')].recur
               /\ \A t \in 1..Len(timers) : timers'[t] = timers[t]
               /\ UNCHANGED <<shellDelays, nextshellDelayId, procs>>
         /\ \A s \in Scheduled :
               (scheds[s].handle.tag = "timer" /\ fired' = fired
                  /\ (ClearShellTimeout(s) \/ ClearShellInterval(s))) =>
               /\ timers'[scheds[s].handle.ref].state # "active"
               /\ \A t \in 1..Len(timers) :
                     t # scheds[s].handle.ref => timers'[t] = timers[t]
               /\ Len(timers') = Len(timers)
               /\ cancel'[s].ret = Undefined
               /\ UNCHANGED <<shellDelays, nextshellDelayId, procs>>
      ]_vars

\* C10 witness: a native-strategy schedule was made and cleared while the
\* oracle reported false; the registry is still empty.
C10_Witness ==
    \E s \in Scheduled :
        /\ scheds[s].handle.tag = "timer"
        /\ cancel[s].out = "native"
        /\ timers[scheds[s].handle.ref].state = "cleared"
        /\ nextshellDelayId = 0
        /\ ~available

\* index.js:132: resolve is the callback of the one-shot delay, so the promise
\* of schedule s is settled by the first invocation counted in fired[s].
PromiseResolved(s) == fired[s] >= 1

\* The one-shot delay of schedule s ran to its end: its sleep process exited
\* normally and was handled, or (fallback) its native timer expired.
DelayCompleted(s) ==
    IF Shell(s)
    THEN FirstProc(s).state = "completed"
    ELSE timers[scheds[s].handle.ref].state = "expired"

\* C11 (as claimed): the promise of a shellSleep call is resolved by exactly
\* one call of resolve, made when and only when its one-shot delay has
\* completed normally, and once its sleep process has exited normally the
\* promise is eventually resolved (whatever valid calls are made on other
\* handles).
C11_SleepResolvesOnce ==
    \A s \in SchedIds :
        []NoSecondClear =>
            /\ [](s \in Scheduled /\ scheds[s].promise
                    => /\ fired[s] <= 1
                       /\ PromiseResolved(s) <=> DelayCompleted(s))
            /\ [](s \in Scheduled /\ scheds[s].promise /\ Shell(s)
                    /\ FirstProc(s).state = "exited"
                    => <>(s \in Scheduled /\ PromiseResolved(s)))

\* C11, the part that holds: no resolve before the delay completed, none
\* twice; and the promise is resolved whenever no clear call hangs.
C11_SleepResolvesUnlessHung ==
    \A s \in SchedIds :
        [](js.mode = "idle") =>
            /\ [](s \in Scheduled /\ scheds[s].promise
                    => /\ fired[s] <= 1
                       /\ PromiseResolved(s) <=> DelayCompleted(s))
            /\ [](s \in Scheduled /\ scheds[s].promise /\ Shell(s)
                    /\ FirstProc(s).state = "exited"
                    => <>(s \in Scheduled /\ PromiseResolved(s)))

\* The step is the completion handler of slot d, a recurring sleep that
\* exited normally.
TickHandled(d) ==
    /\ d \in DOMAIN procs
    /\ procs[d].recur
    /\ procs[d].state = "exited"
    /\ ExecCallback(d)

\* What the handler of slot d leaves behind: the next process is launched,
\* slot d holds its index, the walk from the schedule's handle ends at it and
\* its own handler has not run; the callback was invoked, and if it called
\* clearShellInterval on the handle, that call terminated the new process and
\* returned.
RescheduledBeforeCallback(d) ==
    LET s == procs[d].owner
        new == nextshellDelayId
        cur == Walk(shellDelays', scheds[s].handle)
    IN /\ nextshellDelayId' = new + 1
       /\ shellDelays'[d] = Num(new)
       /\ cur = ProcObj(new)
       /\ procs'[new].owner = s
       /\ procs'[new].state \in {"running", "killed"}
       /\ fired'[s] = fired[s] + 1
       /\ js' = Idle
       /\ cancel'[s] # cancel[s] =>
             /\ cancel'[s].out = "killed"
             /\ cancel'[s].at = fired'[s]
             /\ procs'[new].state = "killed"

\* C12 (as claimed): on every normal completion of a recurring sleep the next
\* process is launched and the slot overwritten before the callback runs, so
\* the walk from the handle finds a launched, unhandled process and a
\* clearShellInterval made by the callback terminates it.
C12_NextLaunchedBeforeCallback ==
    [][\A d \in Slots : TickHandled(d) => RescheduledBeforeCallback(d)]_vars

\* C12, the part that holds: the same, for completions handled while the
\* oracle reports the sleep command available.
C12_NextLaunchedWhileAvailable ==
    [][\A d \in Slots :
         (available /\ TickHandled(d)) => RescheduledBeforeCallback(d)]_vars

\* C12: a callback of a recurring schedule cancelled its own schedule and the
\* process launched for the next tick was killed by it.
C12_ClearedInsideCallback ==
    \E s \in Scheduled :
        /\ scheds[s].recur /\ Shell(s)
        /\ cancel[s].out = "killed"
        /\ cancel[s].at >= 1
        /\ \E d \in ProcsOf(s) :
              /\ procs[d].state = "killed"
              /\ d # scheds[s].handle.ref
              /\ \A e \in ProcsOf(s) : e # d => procs[e].state = "completed"
        /\ fired[s] = Cardinality(ProcsOf(s)) - 1

RECURSIVE Hops(_, _)
\* index.js:96-98: how many times the while loop reads the registry again
Hops(reg, cur) ==
    IF cur.tag = "num" THEN 1 + Hops(reg, Lookup(reg, cur)) ELSE 0

\* index.js:95-98: the length of the indirection chain followed from the
\* handle of schedule s
ChainLength(s) == Hops(shellDelays, Lookup(shellDelays, scheds[s].handle))

\* C13 (as claimed): the chain followed from a returned handle is no longer
\* than the number of ticks that raced with a pending cancellation of the
\* handle: at most 1, and 0 while the handle was never cancelled.
C13_ChainBoundedByRaces ==
    \A s \in Scheduled :
        ChainLength(s) <= (IF cancel[s].out = "none" THEN 0 ELSE 1)

\* C13 (amended): the chain followed from a returned handle has one
\* indirection per sleep process relaunched for the schedule, that is one per
\* completed tick that stayed on the blocking-process strategy: none for a
\* one-shot delay or a native handle, and one more with every tick of a
\* recurring delay.
C13_ChainGrowsPerTick ==
    \A s \in Scheduled :
        LET len == ChainLength(s)
        IN /\ Shell(s) => len = Cardinality(ProcsOf(s)) - 1
           /\ ~Shell(s) \/ ~scheds[s].recur => len = 0
           /\ (Shell(s) /\ scheds[s].recur /\ ~FellBack(s)) =>
                 len = Cardinality({d \in ProcsOf(s) :
                                      procs[d].state = "completed"})

\* C13 witness: a recurring schedule that was never cancelled has completed
\* ticks and its handle leads through as many indirections.
C13_Witness ==
    \E s \in Scheduled :
        /\ scheds[s].recur /\ Shell(s)
        /\ cancel[s].out = "none"
        /\ fired[s] = MaxTicks
        /\ ChainLength(s) = MaxTicks

\* No call of setShellDelay took the fallback so far, as when the oracle
\* reported the sleep command available throughout.
AlwaysAvailableSoFar == timers = <<>>

\* C14: every indirection stored in a slot d points to a populated slot of a
\* greater index, so the registry has no indirection cycle; and as long as
\* the oracle was available throughout, following the indirections from any
\* allocated slot reaches a process wrapper, in no more steps than there are
\* slots after d.
C14_NoIndirectionCycle ==
    \A d \in DOMAIN shellDelays :
        /\ shellDelays[d].tag = "num" =>
              /\ shellDelays[d].ref > d
              /\ shellDelays[d].ref \in DOMAIN shellDelays
        /\ AlwaysAvailableSoFar =>
              /\ HasKill(Follow(shellDelays, shellDelays[d]))
              /\ d + Hops(shellDelays, shellDelays[d]) < nextshellDelayId

\* C14 witness: the oracle was available throughout and a slot leads to a
\* process wrapper through two indirections.
C14_Witness ==
    /\ AlwaysAvailableSoFar
    /\ \E d \in DOMAIN shellDelays :
          /\ Hops(shellDelays, shellDelays[d]) = 2
          /\ HasKill(Follow(shellDelays, shellDelays[d]))

\* The step returns a slot index to a caller of setShellTimeout,
\* setShellInterval or shellSleep.
AllocatedForCaller ==
    /\ Len(scheds') = Len(scheds) + 1
    /\ scheds'[Len(scheds')].handle.tag = "num"

\* The step stores in slot d the slot index a recurrence was given.
AllocatedForRecurrence(d) ==
    /\ shellDelays'[d] # shellDelays[d]
    /\ shellDelays'[d].tag = "num"

\* C15: the allocated slots are always 0 .. nextshellDelayId-1, starting
\* empty, so the first allocation gets slot 0; every allocation, made for a
\* caller or for a recurrence, gets the index one above the previous one and
\* a fresh slot holding its own new process; no step allocates twice, and no
\* step (completion and cancel included) removes a slot or gives it to
\* another process.
C15_SlotAllocationMonotonic ==
    /\ [](DOMAIN shellDelays = 0..(nextshellDelayId - 1))
    /\ [][LET n == nextshellDelayId
              Fresh == /\ nextshellDelayId' = n + 1
                       /\ n \notin DOMAIN shellDelays
                       /\ shellDelays'[n] = ProcObj(n)
                       /\ procs'[n].state \in {"running", "killed"}
          IN /\ nextshellDelayId' \in {n, n + 1}
             /\ DOMAIN shellDelays' =
                   IF nextshellDelayId' = n THEN DOMAIN shellDelays
                   ELSE DOMAIN shellDelays \cup {n}
             /\ \A d \in DOMAIN shellDelays :
                   /\ procs'[d].owner = procs[d].owner
                   /\ procs'[d].state = "running" => procs[d].state = "running"
                   /\ AllocatedForRecurrence(d) =>
                         shellDelays'[d] = Num(n) /\ Fresh
             /\ AllocatedForCaller =>
                   scheds'[Len(scheds')].handle = Num(n) /\ Fresh
             /\ nextshellDelayId' = n + 1 =>
                   \/ AllocatedForCaller
                   \/ \E d \in DOMAIN shellDelays : AllocatedForRecurrence(d)
       ]_vars

\* C15 witness: three allocations, one of them made by a recurrence.
C15_Witness ==
    /\ nextshellDelayId >= 3
    /\ \E s \in Scheduled : Shell(s) /\ scheds[s].handle.ref >= 1
    /\ \E d \in DOMAIN shellDelays : shellDelays[d].tag = "num"

\* The step is the completion handler of slot d, a sleep that was killed.
ErrorHandled(d) ==
    /\ d \in DOMAIN procs
    /\ procs[d].state = "killed"
    /\ ExecCallback(d)

\* C16: the completion handler of a killed sleep process, one-shot or
\* recurring, invokes no callback, launches no process, creates no timer and
\* leaves the registry and the slot counter as they were; all it does is
\* end.
C16_ErrorCompletionDoesNothing ==
    [][\A d \in Slots :
         ErrorHandled(d) =>
            /\ procs' = [procs EXCEPT ![d].state = "aborted"]
            /\ UNCHANGED <<fired, shellDelays, nextshellDelayId, timers, cancel, js>>
      ]_vars

\* C16 witness: the handlers of a killed one-shot sleep and of a killed
\* recurring sleep have both run.
C16_Witness ==
    /\ \E d \in DOMAIN procs : procs[d].state = "aborted" /\ procs[d].recur
    /\ \E d \in DOMAIN procs : procs[d].state = "aborted" /\ ~procs[d].recur

\* The sleep processes of schedule s that are launched and have neither
\* exited nor been killed.
Live(s) == {d \in ProcsOf(s) : procs[d].state = "running"}

\* C17: every schedule whose handle was returned under the blocking-process
\* strategy has at most one live sleep process, and a slot was only given a
\* successor by a recurrence (index.js:51) once its own process had exited
\* normally and been handled.
C17_OneLiveProcessPerHandle ==
    /\ \A s \in Scheduled : Shell(s) => Cardinality(Live(s)) <= 1
    /\ \A d \in DOMAIN shellDelays :
          shellDelays[d].tag # "proc" =>
             /\ procs[d].state = "completed"
             /\ procs[d].recur
             /\ shellDelays[d].tag = "num" =>
                   procs[shellDelays[d].ref].owner = procs[d].owner

\* C17 witness: a recurring schedule has had two processes complete and its
\* third is the only live one.
C17_Witness ==
    \E s \in Scheduled :
        /\ Shell(s)
        /\ Cardinality(ProcsOf(s)) = 3
        /\ Cardinality(Live(s)) = 1

\* The step runs code that was given the handle of schedule s to clear: a
\* caller's clear call on it, a further pass of that call's do-while, or a
\* callback of s (which may clear its own handle).
ClearOn(s) ==
    \/ ClearShellTimeout(s)
    \/ ClearShellInterval(s)
    \/ js.mode = "retry" /\ js.sched = s /\ (ClearWalk \/ ClearKill)
    \/ \E d \in DOMAIN procs : procs[d].owner = s /\ ExecCallback(d)
    \/ \E t \in 1..Len(timers) : timers[t].owner = s /\ TimerFire(t)

\* The step leaves alone every sleep process and native timer that does not
\* belong to schedule s.
OthersUntouched(s) ==
    /\ \A d \in DOMAIN procs : procs[d].owner # s => procs'[d] = procs[d]
    /\ \A d \in DOMAIN procs' : d \notin DOMAIN procs => procs'[d].owner = s
    /\ \A t \in 1..Len(timers) : timers[t].owner # s => timers'[t] = timers[t]

\* A clear call is only ever stuck on a handle it was the first to clear and
\* whose callback was still due (its sleep had exited, unhandled).
OnlyOutstandingCleared ==
    js.mode = "retry" =>
        /\ js.first
        /\ js.cur.ref \in DOMAIN procs
        /\ procs[js.cur.ref].state = "exited"

\* C18 (as claimed): a clear call on the handle of one schedule terminates
\* no process of another schedule, and the other schedule goes on: with the
\* oracle available, every sleep of an uncancelled schedule that exits
\* normally after some other outstanding handle was cleared still gets its
\* completion handled.
C18_ClearLeavesOthersRunning ==
    /\ [][\A s \in Scheduled : ClearOn(s) => OthersUntouched(s)]_vars
    /\ \A s1, s2 \in SchedIds :
          (s1 # s2 /\ [](NeverCancelled(s2)) /\ []OnlyOutstandingCleared
             /\ []available) =>
            \A d \in Slots :
              [](s1 \in Scheduled /\ s2 \in Scheduled /\ cancel[s1].out # "none"
                   /\ d \in ProcsOf(s2) /\ procs[d].state = "exited"
                   => <>(d \in DOMAIN procs /\ procs[d].state = "completed"))

\* C18, the part that holds: a clear call on the handle of one schedule
\* changes no process and no timer of another schedule.
C18_ClearLeavesOthersAlone ==
    [][\A s \in Scheduled : ClearOn(s) => OthersUntouched(s)]_vars

\* C18: a clear call killed the sleep of one schedule while a sleep of
\* another schedule was running, and that one went on to complete.
C18_OtherCompletedAfterClear ==
    \E s1, s2 \in Scheduled :
        /\ s1 # s2
        /\ Shell(s1) /\ Shell(s2)
        /\ cancel[s1].out = "killed"
        /\ cancel[s2].out = "none"
        /\ fired[s1] = 0
        /\ fired[s2] >= 1

\* The slot of the process launched last for schedule s (slots are given out
\* in increasing order, index.js:43).
LatestProc(s) == CHOOSE d \in ProcsOf(s) : \A e \in ProcsOf(s) : e <= d

\* C19: in every state between completion handlers in which the oracle was
\* available throughout, the walk from the handle of a recurring schedule
\* that was not cancelled ends at the process wrapper launched last for the
\* schedule, the one in the highest slot of its chain, and every other
\* process of the schedule has completed and been handled.
C19_WalkEndsAtLatestProcess ==
    \A s \in Scheduled :
        (AlwaysAvailableSoFar /\ scheds[s].recur /\ cancel[s].out = "none") =>
            LET latest == LatestProc(s)
            IN /\ Shell(s)
               /\ Walk(shellDelays, scheds[s].handle) = ProcObj(latest)
               /\ procs[latest].state \in {"running", "exited"}
               /\ \A d \in ProcsOf(s) :
                     d # latest =>
                        /\ procs[d].state = "completed"
                        /\ shellDelays[d].tag = "num"
                        /\ d < shellDelays[d].ref
                        /\ shellDelays[d].ref <= latest

\* C19 witness: an uncancelled recurring schedule, started after another
\* schedule, is at its third process, reached from its handle through two
\* completed ones.
C19_Witness ==
    \E s \in Scheduled :
        /\ AlwaysAvailableSoFar
        /\ scheds[s].recur
        /\ cancel[s].out = "none"
        /\ scheds[s].handle.ref >= 1
        /\ Cardinality(ProcsOf(s)) = 3
        /\ Walk(shellDelays, scheds[s].handle) = ProcObj(LatestProc(s))

====
